---- MODULE Spec2Model ----
(***************************************************************************)
(* A model of tabletools: the Table class (src/tabletools/table.py) and    *)
(* the chunked save of the CSV and pickle handlers.                        *)
(*                                                                         *)
(* A table is Table._data: a sequence of rows, row 1 of the sequence being *)
(* Python's row 0 (the header).  A cell is a record [kind, text]: kind is  *)
(* the Python type of the value ("str", "int", "float", "bool") and text   *)
(* is its characters, one one-character string per character, so that      *)
(* str.isdigit, int() and float() are computed on the characters.          *)
(***************************************************************************)
EXTENDS Integers, Sequences, FiniteSets, TLC

VARIABLES
    table,      \* Table._data of the table under test
    part1,      \* Table._data of the first table returned by split
    part2,      \* Table._data of the second table returned by split
    other,      \* Table._data of an independently built table
    recv,       \* Table._data of a fresh table used as a concat receiver
    cut,        \* the row_number of the split that returned part1 and part2 (-1: none)
    pc,         \* position of the driver
    op,         \* name of the last call
    args,       \* arguments of the last call
    ret,        \* value returned by the last call
    err,        \* exception raised by the last call (NoErr when none)
    sdata,      \* save_table: the rows handed to the handler
    smax,       \* save_table: max_rows (0 stands for None)
    shandler,   \* save_table: "csv" or "pickle"
    srest,      \* CSVHandler.save_table: the local `data`, rows not yet written
    scounter,   \* save_table: the chunk counter
    slast,      \* PickleHandler.save_table: last_row
    sfiles      \* the files written so far: sequence of [name, lines]

tvars == <<table, part1, part2, other, recv, cut, pc, op, args, ret, err>>
svars == <<sdata, smax, shandler, srest, scounter, slast, sfiles>>
vars == <<table, part1, part2, other, recv, cut, pc, op, args, ret, err,
          sdata, smax, shandler, srest, scounter, slast, sfiles>>

-----------------------------------------------------------------------------
(* Bounds of the model *)

\* data rows of a loaded file
MaxDataRows == 1
\* data rows of a table whose column types are inferred
MaxTypeRows == 3
\* data rows of a saved table
MaxSaveRows == 25
\* largest max_rows of a chunked save
MaxChunk == 10

\* column names and cell texts of the files the driver loads
Names == {<<"a">>, <<"b">>}
Values == {<<"1">>, <<"x">>}
MaxCols == Cardinality(Names)

\* column names of the tables the split and concat driver starts from
WideNames == Names \cup {<<"c">>}
MaxWidth == Cardinality(WideNames)

-----------------------------------------------------------------------------
(* Python values *)

StrCell(t) == [kind |-> "str", text |-> t]
IntCell(t) == [kind |-> "int", text |-> t]
FloatCell(t) == [kind |-> "float", text |-> t]
BoolCell(t) == [kind |-> "bool", text |-> t]

Digits == {"0", "1", "2", "3", "4", "5", "6", "7", "8", "9"}

Min(a, b) == IF a < b THEN a ELSE b
Max(a, b) == IF a > b THEN a ELSE b

NoErr == [kind |-> "none", msg |-> "", names |-> <<>>]
Error(k, m) == [kind |-> k, msg |-> m, names |-> <<>>]

\* a slice bound, as Python's slice.indices clamps it
PyNorm(i, n) == IF i < 0 THEN Max(i + n, 0) ELSE Min(i, n)

\* s[lo:hi]
PySlice(s, lo, hi) ==
    LET a == PyNorm(lo, Len(s))
        b == PyNorm(hi, Len(s))
    IN  IF a >= b THEN <<>> ELSE SubSeq(s, a + 1, b)

\* s[lo:]
PySliceFrom(s, lo) == PySlice(s, lo, Len(s))

\* s[:hi]
PySliceTo(s, hi) == PySlice(s, 0, hi)

\* s[i] raises IndexError unless this holds
PyIndexOK(s, i) == -Len(s) <= i /\ i < Len(s)

\* s[i], 0-based, negative i counting from the end
PyAt(s, i) == s[(IF i < 0 THEN i + Len(s) ELSE i) + 1]

\* s with s[i] = v
PySet(s, i, v) == [s EXCEPT ![(IF i < 0 THEN i + Len(s) ELSE i) + 1] = v]

\* list.index(x): the 0-based position of the first element equal to x, -1 for
\* the ValueError of a missing element
ListIndex(s, x) ==
    IF \E i \in 1..Len(s) : s[i] = x
    THEN (CHOOSE i \in 1..Len(s) : s[i] = x /\ \A j \in 1..(i - 1) : s[j] # x) - 1
    ELSE -1

\* list(zip(*rows)): the columns, cut at the shortest row
Zip(rows) ==
    IF rows = <<>> THEN <<>>
    ELSE LET w == CHOOSE n \in {Len(rows[i]) : i \in 1..Len(rows)} :
                      \A i \in 1..Len(rows) : Len(rows[i]) >= n
         IN  [j \in 1..w |-> [i \in 1..Len(rows) |-> rows[i][j]]]

\* the sequences over S of length lo..hi
SeqsOf(S, lo, hi) == UNION {[1..n -> S] : n \in lo..hi}

-----------------------------------------------------------------------------
(* Storage adapters: load *)

\* CSVHandler.load_table / PickleHandler.load_table from path number i on;
\* a file is the sequence of rows csv.reader or pickle.load yields for it
RECURSIVE HandlerLoad(_, _, _, _)
HandlerLoad(handler, files, i, result) ==
    IF i > Len(files) THEN [data |-> result, err |-> NoErr]
    ELSE IF i = 1 THEN HandlerLoad(handler, files, 2, result \o files[1])
    ELSE IF files[i] = <<>>
         THEN [data |-> result,
               err |-> IF handler = "csv" THEN Error("StopIteration", "")
                       ELSE Error("IndexError", "list index out of range")]
    ELSE IF result = <<>>
         THEN [data |-> result, err |-> Error("IndexError", "list index out of range")]
    ELSE IF files[i][1] = result[1]
         THEN HandlerLoad(handler, files, i + 1, result \o Tail(files[i]))
    ELSE [data |-> result, err |-> Error("AttributeError", "Tables has different columns")]

\* Table.load_table: the new _data and the exception
TableLoad(data, handler, files) ==
    LET r == HandlerLoad(handler, files, 1, <<>>)
    IN  IF r.err = NoErr THEN [data |-> r.data, err |-> NoErr]
        ELSE [data |-> data, err |-> r.err]

-----------------------------------------------------------------------------
(* Table: row access *)

\* Table.get_rows_by_number; stop is [none |-> TRUE] for None
GetRowsByNumber(data, start, stop) ==
    IF stop.none
    THEN IF PyIndexOK(data, start)
         THEN [ret |-> <<PyAt(data, start)>>, err |-> NoErr]
         ELSE [ret |-> <<>>, err |-> Error("IndexError", "list index out of range")]
    ELSE IF stop.v = -1
    THEN [ret |-> PySliceFrom(data, start), err |-> NoErr]
    ELSE [ret |-> PySlice(data, start - 1, stop.v), err |-> NoErr]

\* Table.get_rows_by_index: the rows whose first cell is one of values, the
\* comprehension stopping with IndexError at a row without cells
RECURSIVE RowsByIndex(_, _, _, _)
RowsByIndex(data, values, i, acc) ==
    IF i > Len(data) THEN [ret |-> acc, err |-> NoErr]
    ELSE IF data[i] = <<>>
         THEN [ret |-> <<>>, err |-> Error("IndexError", "list index out of range")]
    ELSE RowsByIndex(data, values, i + 1,
                     IF data[i][1] \in values THEN Append(acc, data[i]) ELSE acc)

GetRowsByIndex(data, values) == RowsByIndex(data, values, 1, <<>>)

-----------------------------------------------------------------------------
(* Table: column keys *)

IntKey(i) == [kind |-> "int", i |-> i, name |-> <<>>]
StrKey(n) == [kind |-> "str", i |-> 0, name |-> n]
OtherKey == [kind |-> "other", i |-> 0, name |-> <<>>]

\* the isinstance chain of get_value, set_value and set_values:
\* [i |-> the column index, err |-> the exception]
ResolveColumn(data, column) ==
    IF column.kind = "int" THEN [i |-> column.i, err |-> NoErr]
    ELSE IF column.kind = "str"
    THEN IF data = <<>>
         THEN [i |-> 0, err |-> Error("IndexError", "list index out of range")]
         ELSE IF ListIndex(data[1], StrCell(column.name)) = -1
         THEN [i |-> 0, err |-> Error("ValueError", "is not in list")]
         ELSE [i |-> ListIndex(data[1], StrCell(column.name)), err |-> NoErr]
    ELSE [i |-> 0, err |-> Error("TypeError", "Unexpected type for column")]

-----------------------------------------------------------------------------
(* Table: column mutation *)

\* the loop of set_values over values[i..]: rows already written stay written
\* when a later row has no cell at col
RECURSIVE SetColumn(_, _, _, _)
SetColumn(data, values, col, i) ==
    IF i > Len(values) THEN [data |-> data, err |-> NoErr]
    ELSE IF ~PyIndexOK(data[i + 1], col)
         THEN [data |-> data,
               err |-> Error("IndexError", "list assignment index out of range")]
    ELSE SetColumn([data EXCEPT ![i + 1] = PySet(data[i + 1], col, values[i])],
                   values, col, i + 1)

\* set_values testing the length with `>`: a shorter sequence passes
SetValuesLongOnly(data, values, column) ==
    LET c == ResolveColumn(data, column)
    IN  IF c.err # NoErr THEN [data |-> data, err |-> c.err]
        ELSE IF Len(values) > Len(PySliceFrom(data, 1))
        THEN [data |-> data,
              err |-> Error("ValueError", "Values must have same amount as original table")]
        ELSE SetColumn(data, values, c.i, 1)

\* Table.set_values
SetValues(data, values, column) ==
    LET c == ResolveColumn(data, column)
    IN  IF c.err # NoErr THEN [data |-> data, err |-> c.err]
        ELSE IF Len(values) # Len(PySliceFrom(data, 1))
        THEN [data |-> data,
              err |-> Error("ValueError", "Values must have same amount as original table")]
        ELSE SetColumn(data, values, c.i, 1)

\* Table.set_value
SetValue(data, value, column) ==
    IF Len(data) < 2 THEN [data |-> data, err |-> Error("ValueError", "Table is empty")]
    ELSE LET c == ResolveColumn(data, column)
         IN  IF c.err # NoErr THEN [data |-> data, err |-> c.err]
             ELSE IF ~PyIndexOK(data[2], c.i)
             THEN [data |-> data,
                   err |-> Error("IndexError", "list assignment index out of range")]
             ELSE [data |-> [data EXCEPT ![2] = PySet(data[2], c.i, value)],
                   err |-> NoErr]

-----------------------------------------------------------------------------
(* Table: type coercion *)

\* int(text): an optional sign and then digits only
IsIntLiteral(t) ==
    LET body == IF Len(t) > 0 /\ t[1] \in {"+", "-"} THEN Tail(t) ELSE t
    IN  Len(body) > 0 /\ \A i \in 1..Len(body) : body[i] \in Digits

\* desired_type(value) for the constructors int and str, on a str or an int
\* value: [ok |-> FALSE] stands for the ValueError
Convert(desired, cell) ==
    IF desired = "str" THEN [ok |-> TRUE, cell |-> StrCell(cell.text)]
    ELSE IF cell.kind = "int" THEN [ok |-> TRUE, cell |-> cell]
    ELSE IF cell.kind = "str" /\ IsIntLiteral(cell.text)
    THEN [ok |-> TRUE,
          cell |-> IntCell(IF cell.text[1] = "+" THEN Tail(cell.text) ELSE cell.text)]
    ELSE [ok |-> FALSE, cell |-> cell]

\* the inner loop of set_column_types over data rows i.. (i is the position in
\* the sequence: the first data row is 2)
RECURSIVE ConvertRows(_, _, _, _)
ConvertRows(data, col, desired, i) ==
    IF i > Len(data) THEN [data |-> data, err |-> NoErr]
    ELSE IF ~PyIndexOK(data[i], col)
         THEN [data |-> data, err |-> Error("IndexError", "list index out of range")]
    ELSE IF ~Convert(desired, PyAt(data[i], col)).ok
         THEN [data |-> data, err |-> Error("ValueError", "Cannot convert value")]
    ELSE ConvertRows([data EXCEPT ![i] = PySet(data[i], col,
                                               Convert(desired, PyAt(data[i], col)).cell)],
                     col, desired, i + 1)

\* the outer loop of set_column_types over the items of column_types, a dict
\* given as the sequence of its [key, type] items
RECURSIVE ConvertColumns(_, _, _, _)
ConvertColumns(data, items, by_number, n) ==
    IF n > Len(items) THEN [data |-> data, err |-> NoErr]
    ELSE LET key == items[n].key
             found == IF key.kind = "str" THEN ListIndex(data[1], StrCell(key.name))
                      ELSE -1
         IN  IF ~by_number /\ found = -1
             THEN [data |-> data, err |-> Error("ValueError", "is not in list")]
             ELSE IF by_number /\ key.kind # "int" /\ Len(data) > 1
             THEN [data |-> data,
                   err |-> Error("TypeError", "list indices must be integers")]
             ELSE LET r == ConvertRows(data, IF by_number THEN key.i ELSE found,
                                       items[n].type, 2)
                  IN  IF r.err # NoErr THEN r
                      ELSE ConvertColumns(r.data, items, by_number, n + 1)

\* the emptiness test of set_column_types
IsEmptyForTypes(data) == data = <<>>

\* Table.set_column_types
SetColumnTypes(data, items, by_number) ==
    IF IsEmptyForTypes(data)
    THEN [data |-> data, err |-> Error("ValueError", "Table is empty")]
    ELSE ConvertColumns(data, items, by_number, 1)

-----------------------------------------------------------------------------
(* Table: concat and split *)

\* `duplicates` testing the count with `>= 1`: every header is listed
DuplicatesAll(headers) ==
    SelectSeq(headers,
              LAMBDA h : Cardinality({i \in 1..Len(headers) : headers[i] = h}) >= 1)

\* the list `duplicates` of concat: every header that occurs more than once
Duplicates(headers) ==
    SelectSeq(headers,
              LAMBDA h : Cardinality({i \in 1..Len(headers) : headers[i] = h}) > 1)

\* the elements of a sequence
Range(s) == {s[i] : i \in 1..Len(s)}

\* Table.concat on a receiver holding self_data
Concat(self_data, data_1, data_2) ==
    IF self_data # <<>>
    THEN [data |-> self_data,
          err |-> Error("ValueError", "Table is not empty, cannot concatenate tables")]
    ELSE IF data_1 = <<>>
    THEN [data |-> self_data, err |-> Error("ValueError", "Table #1 is empty")]
    ELSE IF data_2 = <<>>
    THEN [data |-> self_data, err |-> Error("ValueError", "Table #2 is empty")]
    ELSE LET headers == data_1[1] \o data_2[1]
             result_data == Zip(data_1) \o Zip(data_2)
         IN  IF Len(headers) # Cardinality(Range(headers))
             THEN [data |-> self_data,
                   err |-> [kind |-> "ValueError", msg |-> "Duplicate header found",
                            names |-> Duplicates(headers)]]
             ELSE IF result_data = <<>>
             THEN [data |-> self_data,
                   err |-> Error("IndexError", "list index out of range")]
             ELSE IF \E i \in 1..Len(result_data) :
                         Len(result_data[i]) # Len(result_data[1])
             THEN [data |-> self_data, err |-> Error("ValueError", "Row length mismatch")]
             ELSE [data |-> Zip(result_data), err |-> NoErr]

\* split slicing at row_number instead of row_number - 1
SplitAtRowNumber(data, row_number) ==
    IF data = <<>>
    THEN [part1 |-> <<>>, part2 |-> <<>>, err |-> Error("ValueError", "Table is empty")]
    ELSE LET transported == Zip(data)
         IN  [part1 |-> Zip(PySliceTo(transported, row_number)),
              part2 |-> Zip(PySliceFrom(transported, row_number)),
              err |-> NoErr]

\* Table.split: the _data of the two tables returned
Split(data, row_number) ==
    IF data = <<>>
    THEN [part1 |-> <<>>, part2 |-> <<>>, err |-> Error("ValueError", "Table is empty")]
    ELSE LET transported == Zip(data)
         IN  [part1 |-> Zip(PySliceTo(transported, row_number - 1)),
              part2 |-> Zip(PySliceFrom(transported, row_number - 1)),
              err |-> NoErr]

\* Table.__init__: `data or []`
NewTable(data) == IF data = <<>> THEN <<>> ELSE data

-----------------------------------------------------------------------------
(* The inputs of the driver *)

NameCells == {StrCell(n) : n \in Names}
ValueCells == {StrCell(v) : v \in Values}

Headers == SeqsOf(NameCells, 1, MaxCols)
DataRows == SeqsOf(ValueCells, 1, MaxCols)

\* what a file holds: nothing, or a header and data rows of any widths
Files ==
    {<<>>} \cup {<<h>> \o d : h \in Headers, d \in SeqsOf(DataRows, 0, MaxDataRows)}

\* the paths of one load_table call, at most MaxDataRows data rows in all
PathLists ==
    {<<>>} \cup {<<f>> : f \in Files}
           \cup {p \in Files \X Files : Len(p[1]) + Len(p[2]) <= MaxDataRows + 2}

ColumnKeys ==
    {IntKey(i) : i \in -1..MaxCols} \cup {StrKey(n) : n \in Names} \cup {OtherKey}

NoStop == [none |-> TRUE, v |-> 0]
Stops == {NoStop} \cup {[none |-> FALSE, v |-> v] : v \in -1..(MaxDataRows + 1)}

ColumnTypeMaps ==
    {<<>>} \cup {<<[key |-> k, type |-> t]>> :
                     k \in {IntKey(i) : i \in 0..MaxCols} \cup {StrKey(n) : n \in Names},
                     t \in {"int", "str"}}

\* tables built apart from the table under test: one column, any row count
OtherTables ==
    {<<<<StrCell(<<"c">>)>>>> \o d :
         d \in SeqsOf({<<StrCell(<<"1">>)>>}, 0, MaxDataRows + 1)}

TableNames == {"part1", "part2", "other"}

-----------------------------------------------------------------------------
(* The driver: construct, load, query and mutate, split, concat *)

SaveIdle ==
    /\ sdata = <<>>
    /\ smax = 0
    /\ shandler = "none"
    /\ srest = <<>>
    /\ scounter = 0
    /\ slast = 0
    /\ sfiles = <<>>

Init ==
    /\ table = NewTable(<<>>)
    /\ part1 = NewTable(<<>>)
    /\ part2 = NewTable(<<>>)
    /\ other = NewTable(<<>>)
    /\ recv = NewTable(<<>>)
    /\ cut = -1
    /\ pc = "new"
    /\ op = "idle"
    /\ args = <<>>
    /\ ret = <<>>
    /\ err = NoErr
    /\ SaveIdle

LoadTable ==
    /\ pc = "new"
    /\ op = "idle"
    /\ \E handler \in {"csv", "pickle"}, files \in PathLists :
          LET r == TableLoad(table, handler, files)
          IN  /\ table' = r.data
              /\ err' = r.err
              /\ args' = [handler |-> handler, paths |-> Len(files)]
    /\ pc' = "loaded"
    /\ op' = "load_table"
    /\ ret' = <<>>
    /\ UNCHANGED <<part1, part2, other, recv, cut>>
    /\ UNCHANGED svars

CallGetRowsByNumber ==
    /\ pc = "loaded"
    /\ op = "idle"
    /\ \E start \in 0..(MaxDataRows + 1), stop \in Stops :
          LET r == GetRowsByNumber(table, start, stop)
          IN  /\ ret' = r.ret
              /\ err' = r.err
              /\ args' = [start |-> start, stop |-> stop]
    /\ op' = "get_rows_by_number"
    /\ UNCHANGED <<table, part1, part2, other, recv, cut, pc>>
    /\ UNCHANGED svars

CallGetRowsByIndex ==
    /\ pc = "loaded"
    /\ op = "idle"
    /\ \E values \in SUBSET (NameCells \cup ValueCells) :
          LET r == GetRowsByIndex(table, values)
          IN  /\ ret' = r.ret
              /\ err' = r.err
              /\ args' = [values |-> values]
    /\ op' = "get_rows_by_index"
    /\ UNCHANGED <<table, part1, part2, other, recv, cut, pc>>
    /\ UNCHANGED svars

CallSetValue ==
    /\ pc = "loaded"
    /\ op = "idle"
    /\ \E value \in ValueCells, column \in ColumnKeys :
          LET r == SetValue(table, value, column)
          IN  /\ table' = r.data
              /\ err' = r.err
              /\ args' = [value |-> value, column |-> column]
    /\ op' = "set_value"
    /\ ret' = <<>>
    /\ UNCHANGED <<part1, part2, other, recv, cut, pc>>
    /\ UNCHANGED svars

CallSetValues ==
    /\ pc = "loaded"
    /\ op = "idle"
    /\ \E values \in SeqsOf(ValueCells, 0, MaxDataRows + 1), column \in ColumnKeys :
          LET r == SetValues(table, values, column)
          IN  /\ table' = r.data
              /\ err' = r.err
              /\ args' = [values |-> values, column |-> column]
    /\ op' = "set_values"
    /\ ret' = <<>>
    /\ UNCHANGED <<part1, part2, other, recv, cut, pc>>
    /\ UNCHANGED svars

CallSetColumnTypes ==
    /\ pc = "loaded"
    /\ op = "idle"
    /\ \E items \in ColumnTypeMaps, by_number \in BOOLEAN :
          LET r == SetColumnTypes(table, items, by_number)
          IN  /\ table' = r.data
              /\ err' = r.err
              /\ args' = [column_types |-> items, by_number |-> by_number]
    /\ op' = "set_column_types"
    /\ ret' = <<>>
    /\ UNCHANGED <<part1, part2, other, recv, cut, pc>>
    /\ UNCHANGED svars

CallSplit ==
    /\ pc = "loaded"
    /\ op = "idle"
    /\ \E row_number \in 0..(MaxWidth + 1) :
          LET r == Split(table, row_number)
          IN  /\ part1' = NewTable(r.part1)
              /\ part2' = NewTable(r.part2)
              /\ cut' = IF r.err = NoErr THEN row_number ELSE cut
              /\ err' = r.err
              /\ args' = [row_number |-> row_number]
              /\ pc' = IF r.err = NoErr THEN "split" ELSE pc
    /\ op' = "split"
    /\ ret' = <<>>
    /\ UNCHANGED <<table, other, recv>>
    /\ UNCHANGED svars

BuildOther ==
    /\ pc = "split"
    /\ op = "idle"
    /\ other = <<>>
    /\ recv = <<>>
    /\ \E d \in OtherTables : other' = NewTable(d)
    /\ op' = "Table"
    /\ args' = <<>>
    /\ ret' = <<>>
    /\ err' = NoErr
    /\ UNCHANGED <<table, part1, part2, recv, cut, pc>>
    /\ UNCHANGED svars

TableData(name) ==
    CASE name = "part1" -> part1
      [] name = "part2" -> part2
      [] name = "other" -> other

CallConcat ==
    /\ pc = "split"
    /\ op = "idle"
    /\ \E t1 \in TableNames, t2 \in TableNames :
          LET r == Concat(recv, TableData(t1), TableData(t2))
          IN  /\ recv' = r.data
              /\ err' = r.err
              /\ args' = [table_1 |-> t1, table_2 |-> t2, fresh |-> recv = <<>>]
    /\ op' = "concat"
    /\ ret' = <<>>
    /\ UNCHANGED <<table, part1, part2, other, cut, pc>>
    /\ UNCHANGED svars

\* the caller drops what the last call returned or raised
Forget ==
    /\ op # "idle"
    /\ op' = "idle"
    /\ args' = <<>>
    /\ ret' = <<>>
    /\ err' = NoErr
    /\ UNCHANGED <<table, part1, part2, other, recv, cut, pc>>
    /\ UNCHANGED svars

Next ==
    \/ LoadTable
    \/ CallGetRowsByNumber
    \/ CallGetRowsByIndex
    \/ CallSetValue
    \/ CallSetValues
    \/ CallSetColumnTypes
    \/ CallSplit
    \/ BuildOther
    \/ CallConcat
    \/ Forget

Spec == Init /\ [][Next]_vars

-----------------------------------------------------------------------------
(* The split and concat driver: Table(data) for a rectangular table of up to *)
(* MaxWidth columns, then split and concat                                   *)

\* the rectangular tables of one header and up to MaxDataRows data rows
SplitTables ==
    UNION {{<<h>> \o d : h \in [1..w -> {StrCell(n) : n \in WideNames}],
                         d \in SeqsOf([1..w -> ValueCells], 0, MaxDataRows)} :
           w \in 1..MaxWidth}

InitSplit ==
    /\ table \in {NewTable(d) : d \in SplitTables}
    /\ part1 = NewTable(<<>>)
    /\ part2 = NewTable(<<>>)
    /\ other = NewTable(<<>>)
    /\ recv = NewTable(<<>>)
    /\ cut = -1
    /\ pc = "loaded"
    /\ op = "idle"
    /\ args = <<>>
    /\ ret = <<>>
    /\ err = NoErr
    /\ SaveIdle

NextSplit ==
    \/ CallSplit
    \/ BuildOther
    \/ CallConcat
    \/ Forget

SpecSplit == InitSplit /\ [][NextSplit]_vars

-----------------------------------------------------------------------------
(* Properties of split and concat *)

Rectangular(data) == \A i \in 1..Len(data) : Len(data[i]) = Len(data[1])

UniqueHeader(data) ==
    \A i \in 1..Len(data[1]) : \A j \in 1..Len(data[1]) :
        data[1][i] = data[1][j] => i = j

\* the column names occurring more than once in the combined header
SharedNames(data_1, data_2) ==
    {h \in Range(data_1[1] \o data_2[1]) :
        Cardinality({i \in 1..Len(data_1[1] \o data_2[1]) :
                        (data_1[1] \o data_2[1])[i] = h}) > 1}

\* C1: after T.split(k) of a rectangular non-empty table T, the rows of the
\* first table followed by the rows of the second (its first row taken as a
\* duplicated header or as a row) are the rows of T.
C1_SplitPartitionsRows ==
    (op = "split" /\ err = NoErr /\ args.row_number >= 1
        /\ table # <<>> /\ Rectangular(table))
        => \/ part1 \o part2 = table
           \/ part2 # <<>> /\ part1 \o Tail(part2) = table

\* C2: concat on an empty receiver fails when table_1 or table_2 has no rows,
\* and fails with the duplicate-header error naming exactly the column names
\* that occur more than once in the combined header when both are non-empty
\* and some name occurs more than once; in each failing case the receiver
\* stays empty and the source tables are unchanged.
C2_ConcatFailures ==
    [][(op = "idle" /\ op' = "concat" /\ recv = <<>>)
          => LET d1 == TableData(args'.table_1)
                 d2 == TableData(args'.table_2)
             IN  /\ (d1 = <<>> \/ d2 = <<>>)
                       => /\ err'.kind = "ValueError"
                          /\ err'.msg = IF d1 = <<>> THEN "Table #1 is empty"
                                        ELSE "Table #2 is empty"
                 /\ (d1 # <<>> /\ d2 # <<>> /\ SharedNames(d1, d2) # {})
                       => /\ err'.kind = "ValueError"
                          /\ err'.msg = "Duplicate header found"
                          /\ Range(err'.names) = SharedNames(d1, d2)
                 /\ err' # NoErr
                       => /\ recv' = <<>>
                          /\ part1' = part1
                          /\ part2' = part2
                          /\ other' = other]_vars

\* C2 witness: a concat of two non-empty tables has failed on a fresh receiver
\* with a duplicate-header error that names some column and not every column.
C2_Witness ==
    /\ op = "concat"
    /\ args.fresh
    /\ err.msg = "Duplicate header found"
    /\ err.names # <<>>
    /\ Range(err.names) # Range(TableData(args.table_1)[1] \o TableData(args.table_2)[1])

-----------------------------------------------------------------------------
(* Properties of the column and row operations *)

\* the number of data rows
DataRowCount(data) == IF data = <<>> THEN 0 ELSE Len(data) - 1

\* the key is an integer, or a name found in the header: the call reaches the
\* length test of set_values
KeyResolves(data, column) ==
    \/ column.kind = "int"
    \/ /\ column.kind = "str"
       /\ data # <<>>
       /\ StrCell(column.name) \in Range(data[1])

\* the 1-based position of the column a key addresses
KeyPosition(data, column) ==
    IF column.kind = "int" THEN column.i + 1
    ELSE CHOOSE j \in 1..Len(data[1]) :
             /\ data[1][j] = StrCell(column.name)
             /\ \A q \in 1..(j - 1) : data[1][q] # StrCell(column.name)

\* the key addresses a cell of every data row
KeyAddresses(data, column) ==
    /\ KeyResolves(data, column)
    /\ column.kind = "int" => column.i >= 0
    /\ \A r \in 2..Len(data) : KeyPosition(data, column) <= Len(data[r])

\* C4: set_values with a sequence whose length differs from the number of
\* data rows fails with the length-mismatch ValueError and leaves every cell,
\* header included, unchanged; with a sequence of that length it succeeds and
\* changes only the data-row cells of the addressed column, to the values.
C4_SetValuesLength ==
    [][(op = "idle" /\ op' = "set_values")
          => LET values == args'.values
                 column == args'.column
             IN  /\ (KeyResolves(table, column) /\ Len(values) # DataRowCount(table))
                       => /\ err' = Error("ValueError",
                                          "Values must have same amount as original table")
                          /\ table' = table
                 /\ (KeyAddresses(table, column) /\ Len(values) = DataRowCount(table))
                       => /\ err' = NoErr
                          /\ Len(table') = Len(table)
                          /\ table # <<>> => table'[1] = table[1]
                          /\ \A r \in 2..Len(table) :
                                /\ Len(table'[r]) = Len(table[r])
                                /\ \A j \in 1..Len(table[r]) :
                                      table'[r][j] =
                                          IF j = KeyPosition(table, column)
                                          THEN values[r - 1] ELSE table[r][j]]_vars

\* C4 witness: set_values has failed on the length test on a table with a data
\* row.
C4_Witness ==
    /\ op = "set_values"
    /\ Len(table) >= 2
    /\ Len(args.values) # DataRowCount(table)
    /\ err = Error("ValueError", "Values must have same amount as original table")

\* C6: set_column_types on a table without data rows (no rows at all, or a
\* header row only) fails with the "Table is empty" error.
C6_EmptyTableError ==
    (op = "set_column_types" /\ DataRowCount(table) = 0)
        => err = Error("ValueError", "Table is empty")

\* C7: every row of every table has the length of that table's header row.
C7_Rectangular ==
    /\ Rectangular(table)
    /\ Rectangular(part1)
    /\ Rectangular(part2)
    /\ Rectangular(other)
    /\ Rectangular(recv)

\* C8: get_rows_by_number numbers the data rows from 1, the header excluded,
\* in its three branches: for 1 <= n <= number of data rows, (n) returns data
\* row n, (n, -1) returns data rows n to the last, and (n, m) with n <= m
\* returns a slice whose first row is data row n.
C8_UniformRowNumbering ==
    (/\ op = "get_rows_by_number"
     /\ 1 <= args.start /\ args.start <= DataRowCount(table))
        => /\ args.stop.none => ret = <<table[args.start + 1]>>
           /\ (~args.stop.none /\ args.stop.v = -1)
                 => ret = SubSeq(table, args.start + 1, Len(table))
           /\ (~args.stop.none /\ args.stop.v >= args.start)
                 => ret # <<>> /\ ret[1] = table[args.start + 1]

\* C9: get_rows_by_index returns, in table order, exactly the data rows whose
\* first cell is one of the keys, and never the header row.
C9_DataRowsOnly ==
    (op = "get_rows_by_index" /\ err = NoErr)
        => ret = IF table = <<>> THEN <<>>
                 ELSE SelectSeq(Tail(table), LAMBDA row : row[1] \in args.values)

-----------------------------------------------------------------------------
(* Table: type inference *)

\* str.lower on one character
LowerChar(ch) ==
    CASE ch = "T" -> "t"
      [] ch = "R" -> "r"
      [] ch = "U" -> "u"
      [] ch = "E" -> "e"
      [] ch = "F" -> "f"
      [] ch = "A" -> "a"
      [] ch = "L" -> "l"
      [] ch = "S" -> "s"
      [] OTHER -> ch

Lower(t) == [i \in 1..Len(t) |-> LowerChar(t[i])]

\* str.isdigit: at least one character, all of them digits
IsDigit(t) == Len(t) > 0 /\ \A i \in 1..Len(t) : t[i] \in Digits

\* float(text) does not raise ValueError: an optional sign, then digits with
\* at most one point and at least one digit (no text of the model is an
\* exponent form, inf or nan)
IsFloatLiteral(t) ==
    LET body == IF Len(t) > 0 /\ t[1] \in {"+", "-"} THEN Tail(t) ELSE t
    IN  /\ \A i \in 1..Len(body) : body[i] \in Digits \cup {"."}
        /\ Cardinality({i \in 1..Len(body) : body[i] = "."}) <= 1
        /\ \E i \in 1..Len(body) : body[i] \in Digits

\* the type one value adds to `types` in _infer_type
ClassifyValue(value) ==
    IF value.kind \in {"int", "bool"} THEN "int"
    ELSE IF value.kind = "float" THEN "float"
    ELSE IF IsDigit(value.text) THEN "int"
    ELSE IF IsFloatLiteral(value.text) THEN "float"
    ELSE IF Lower(value.text) \in {<<"t", "r", "u", "e">>, <<"f", "a", "l", "s", "e">>}
    THEN "bool"
    ELSE "str"

\* _infer_type with numeric promotion: int and float together give float
InferTypePromoting(column) ==
    LET types == {ClassifyValue(column[i]) : i \in 1..Len(column)}
    IN  IF Cardinality(types) = 1 THEN CHOOSE t \in types : TRUE
        ELSE IF types = {"int", "float"} THEN "float"
        ELSE "str"

\* Table._infer_type
InferType(column) ==
    LET types == {ClassifyValue(column[i]) : i \in 1..Len(column)}
    IN  IF Cardinality(types) = 1 THEN CHOOSE t \in types : TRUE ELSE "str"

\* d[key] = value on a dict given as the sequence of its [key, value] items
DictSet(d, key, value) ==
    IF \E i \in 1..Len(d) : d[i].key = key
    THEN [i \in 1..Len(d) |-> IF d[i].key = key THEN [key |-> key, value |-> value]
                              ELSE d[i]]
    ELSE Append(d, [key |-> key, value |-> value])

\* the loop of get_column_types over the columns from number n on
RECURSIVE ColumnTypes(_, _, _, _, _)
ColumnTypes(data, columns, by_number, n, acc) ==
    IF n > Len(columns) THEN [ret |-> acc, err |-> NoErr]
    ELSE IF ~by_number /\ n > Len(data[1])
         THEN [ret |-> <<>>, err |-> Error("IndexError", "list index out of range")]
    ELSE ColumnTypes(data, columns, by_number, n + 1,
                     DictSet(acc,
                             IF by_number THEN IntKey(n - 1) ELSE StrKey(data[1][n].text),
                             InferType(columns[n])))

\* Table.get_column_types
GetColumnTypes(data, by_number) ==
    IF data = <<>> THEN [ret |-> <<>>, err |-> NoErr]
    ELSE ColumnTypes(data, Zip(PySliceFrom(data, 1)), by_number, 1, <<>>)

-----------------------------------------------------------------------------
(* The type inference driver: Table(data), then get_column_types *)

Text1 == <<"1">>
Text2 == <<"2">>
Text3 == <<"3">>
Text25 == <<"2", ".", "5">>
TextAbc == <<"a", "b", "c">>
TextTrue == <<"T", "r", "u", "e">>

\* the values of the column of a table of one column
TypeValues ==
    {StrCell(Text1), StrCell(Text2), StrCell(Text3), StrCell(Text25),
     StrCell(TextAbc), StrCell(TextTrue),
     IntCell(Text1), BoolCell(TextTrue), FloatCell(Text25)}

\* the values of the two columns of a table of two columns
PairValues == {StrCell(Text1), StrCell(Text25), StrCell(TextAbc)}
SecondValues == {StrCell(Text1), StrCell(TextAbc)}

TypeHeaders ==
    {<<StrCell(<<"a">>)>>, <<StrCell(<<"a">>), StrCell(<<"b">>)>>,
     <<StrCell(<<"a">>), StrCell(<<"a">>)>>}

TypeRows(w) ==
    IF w = 1 THEN {<<v>> : v \in TypeValues}
    ELSE {<<v, u>> : v \in PairValues, u \in SecondValues}

\* the rectangular tables of one header and up to MaxTypeRows data rows
TypeTables ==
    {<<>>} \cup UNION {{<<h>> \o d : h \in {g \in TypeHeaders : Len(g) = w},
                                     d \in SeqsOf(TypeRows(w), 0, MaxTypeRows)} :
                       w \in 1..2}

InitTypes ==
    /\ table \in {NewTable(d) : d \in TypeTables}
    /\ part1 = NewTable(<<>>)
    /\ part2 = NewTable(<<>>)
    /\ other = NewTable(<<>>)
    /\ recv = NewTable(<<>>)
    /\ cut = -1
    /\ pc = "loaded"
    /\ op = "idle"
    /\ args = <<>>
    /\ ret = <<>>
    /\ err = NoErr
    /\ SaveIdle

CallGetColumnTypes ==
    /\ pc = "loaded"
    /\ op = "idle"
    /\ \E by_number \in BOOLEAN :
          LET r == GetColumnTypes(table, by_number)
          IN  /\ ret' = r.ret
              /\ err' = r.err
              /\ args' = [by_number |-> by_number]
    /\ op' = "get_column_types"
    /\ UNCHANGED <<table, part1, part2, other, recv, cut, pc>>
    /\ UNCHANGED svars

NextTypes ==
    \/ CallGetColumnTypes
    \/ Forget

SpecTypes == InitTypes /\ [][NextTypes]_vars

-----------------------------------------------------------------------------
(* Properties of type inference *)

\* the values of column j (1-based) of the data rows
ColumnValues(data, j) == [r \in 1..(Len(data) - 1) |-> data[r + 1][j]]

\* the type the returned dict holds for column j, "" when it holds none
ReturnedType(d, data, by_number, j) ==
    LET key == IF by_number THEN IntKey(j - 1) ELSE StrKey(data[1][j].text)
    IN  IF \E i \in 1..Len(d) : d[i].key = key
        THEN d[CHOOSE i \in 1..Len(d) : d[i].key = key].value
        ELSE ""

\* in the state after get_column_types, every column holding exactly `texts`
\* (as strings) has the type `type` in the returned dict
InfersTo(texts, type) ==
    (op = "get_column_types" /\ Len(table) >= 2 /\ UniqueHeader(table))
        => \A j \in 1..Len(table[1]) :
               ColumnValues(table, j) = [i \in 1..Len(texts) |-> StrCell(texts[i])]
                   => ReturnedType(ret, table, args.by_number, j) = type

\* C3 as stated: ["1","2","3"] infers to int, ["1","2.5"] to float and
\* ["1","abc"] to str.
C3_InferenceExamples ==
    /\ InfersTo(<<Text1, Text2, Text3>>, "int")
    /\ InfersTo(<<Text1, Text25>>, "float")
    /\ InfersTo(<<Text1, TextAbc>>, "str")

\* C3 amended: ["1","2","3"] infers to int, and both ["1","2.5"] and
\* ["1","abc"] infer to str, the fallback for a column of more than one kind.
C3_InferenceExamplesAmended ==
    /\ InfersTo(<<Text1, Text2, Text3>>, "int")
    /\ InfersTo(<<Text1, Text25>>, "str")
    /\ InfersTo(<<Text1, TextAbc>>, "str")

\* C3 witness: get_column_types has returned str for a column ["1","2.5"].
C3_Witness ==
    /\ op = "get_column_types"
    /\ Len(table) = 3
    /\ ColumnValues(table, 1) = <<StrCell(Text1), StrCell(Text25)>>
    /\ ReturnedType(ret, table, args.by_number, 1) = "str"

-----------------------------------------------------------------------------
(* Storage adapters: save *)

\* a file written by a handler: counter is the number put before the
\* extension (0: the path as given), lines are its rows in order, each with
\* the line terminator it was written with ("" in a pickle file)
SavedFile(counter, lines) == [counter |-> counter, lines |-> lines]

\* csv.writer.writerows(rows)
WriteRows(rows) == [i \in 1..Len(rows) |-> [fields |-> rows[i], eol |-> "\r\n"]]

\* file.write(",".join(data[0]) + "\n"), the names holding no comma or quote
HeaderLine(header) == [fields |-> header, eol |-> "\n"]

\* pickle.dump(rows, file)
DumpRows(rows) == [i \in 1..Len(rows) |-> [fields |-> rows[i], eol |-> ""]]

\* `max_rows if len(data) > max_rows else len(data)`
ChunkSize(data, max_rows) == IF Len(data) > max_rows THEN max_rows ELSE Len(data)

\* (len(data) - 1) // max_rows, the chunk count rounded down
MaxCounterFloor(data, max_rows) == (Len(data) - 1) \div max_rows

\* ceil((len(data) - 1) / max_rows)
MaxCounter(data, max_rows) == (Len(data) - 1 + max_rows - 1) \div max_rows

\* save_table writes a single file: max_rows is None (0 here) or the table
\* has no more than max_rows rows, header included
SingleFile(data, max_rows) == max_rows = 0 \/ ~(Len(data) > max_rows)

-----------------------------------------------------------------------------
(* The save driver: Table(data), then save_table with the CSV or the pickle *)
(* handler, one step per file written                                       *)

DigitChars == <<"0", "1", "2", "3", "4", "5", "6", "7", "8", "9">>

\* str(i)
RECURSIVE NumText(_)
NumText(i) ==
    IF i < 10 THEN <<DigitChars[i + 1]>>
    ELSE NumText(i \div 10) \o <<DigitChars[(i % 10) + 1]>>

\* a header and n data rows, data row i holding the text of i
SaveTable(n) ==
    <<<<StrCell(<<"i", "d">>)>>>> \o [i \in 1..n |-> <<StrCell(NumText(i))>>]

InitSave ==
    /\ table \in {NewTable(<<>>)} \cup {NewTable(SaveTable(n)) : n \in 0..MaxSaveRows}
    /\ part1 = NewTable(<<>>)
    /\ part2 = NewTable(<<>>)
    /\ other = NewTable(<<>>)
    /\ recv = NewTable(<<>>)
    /\ cut = -1
    /\ pc = "loaded"
    /\ op = "idle"
    /\ args = <<>>
    /\ ret = <<>>
    /\ err = NoErr
    /\ SaveIdle

\* Table.save_table up to the first file: the single file, or the set-up of
\* the chunk loop
CallSaveTable ==
    /\ pc = "loaded"
    /\ \E handler \in {"csv", "pickle"}, max_rows \in 0..MaxChunk :
          /\ shandler' = handler
          /\ smax' = max_rows
          /\ sdata' = table
          /\ IF SingleFile(table, max_rows)
             THEN /\ sfiles' = <<SavedFile(0, IF handler = "csv" THEN WriteRows(table)
                                              ELSE DumpRows(table))>>
                  /\ srest' = table
                  /\ scounter' = 0
                  /\ slast' = 0
                  /\ pc' = "saved"
             ELSE /\ sfiles' = <<>>
                  /\ srest' = table
                  /\ scounter' = 1
                  /\ slast' = 1
                  /\ pc' = handler
          /\ args' = [handler |-> handler, max_rows |-> max_rows]
    /\ op' = "save_table"
    /\ ret' = <<>>
    /\ err' = NoErr
    /\ UNCHANGED <<table, part1, part2, other, recv, cut>>

\* one pass of the `while True` of CSVHandler.save_table that writes a file
CsvWriteChunk ==
    /\ pc = "csv"
    /\ Len(srest) > 0
    /\ sfiles' = Append(sfiles,
                        SavedFile(scounter,
                                  (IF scounter # 1 THEN <<HeaderLine(sdata[1])>> ELSE <<>>)
                                      \o WriteRows(PySliceTo(srest, ChunkSize(srest, smax)))))
    /\ srest' = PySliceFrom(srest, ChunkSize(srest, smax))
    /\ scounter' = scounter + 1
    /\ UNCHANGED <<sdata, smax, shandler, slast>>
    /\ UNCHANGED tvars

\* the `break` of CSVHandler.save_table
CsvBreak ==
    /\ pc = "csv"
    /\ Len(srest) = 0
    /\ pc' = "saved"
    /\ UNCHANGED <<table, part1, part2, other, recv, cut, op, args, ret, err>>
    /\ UNCHANGED svars

\* one pass of the `for counter in range(1, max_counter + 1)` of
\* PickleHandler.save_table
PickleWriteChunk ==
    /\ pc = "pickle"
    /\ scounter <= MaxCounter(sdata, smax)
    /\ sfiles' = Append(sfiles,
                        SavedFile(scounter,
                                  DumpRows(<<sdata[1]>>
                                           \o PySlice(sdata, slast, slast + smax))))
    /\ slast' = slast + smax
    /\ scounter' = scounter + 1
    /\ UNCHANGED <<sdata, smax, shandler, srest>>
    /\ UNCHANGED tvars

\* the end of the `for` of PickleHandler.save_table
PickleEnd ==
    /\ pc = "pickle"
    /\ scounter > MaxCounter(sdata, smax)
    /\ pc' = "saved"
    /\ UNCHANGED <<table, part1, part2, other, recv, cut, op, args, ret, err>>
    /\ UNCHANGED svars

NextSave ==
    \/ CallSaveTable
    \/ CsvWriteChunk
    \/ CsvBreak
    \/ PickleWriteChunk
    \/ PickleEnd

SpecSave == InitSave /\ [][NextSave]_vars

-----------------------------------------------------------------------------
(* Properties of the chunked save *)

\* the rows of the lines from number i on
RECURSIVE RowsOf(_, _)
RowsOf(lines, i) ==
    IF i > Len(lines) THEN <<>> ELSE <<lines[i].fields>> \o RowsOf(lines, i + 1)

\* the data rows of the files from number i on, each file's first line taken
\* as its header
RECURSIVE DataRowsOfFiles(_, _)
DataRowsOfFiles(files, i) ==
    IF i > Len(files) THEN <<>>
    ELSE RowsOf(files[i].lines, 2) \o DataRowsOfFiles(files, i + 1)

\* C5: a table of a header and N data rows saved with max_rows = m, m >= 1 and
\* N + 1 > m, is written by either handler as chunk files numbered 1, 2, ...,
\* every file after the first beginning with the header row, the data rows
\* of the files in counter order being the N data rows in their order; for
\* N = 25 and m = 10 there are 3 files.
C5_ChunkedSave ==
    (pc = "saved" /\ smax >= 1 /\ Len(sdata) > smax)
        => /\ Len(sfiles) >= 1
           /\ \A i \in 1..Len(sfiles) : sfiles[i].counter = i
           /\ \A i \in 2..Len(sfiles) :
                 /\ sfiles[i].lines # <<>>
                 /\ sfiles[i].lines[1].fields = sdata[1]
           /\ sfiles[1].lines # <<>> /\ sfiles[1].lines[1].fields = sdata[1]
           /\ DataRowsOfFiles(sfiles, 1) = Tail(sdata)
           /\ (Len(sdata) = 26 /\ smax = 10) => Len(sfiles) = 3

\* C5 witness: a table of 25 data rows has been saved in 3 chunk files with
\* max_rows = 10.
C5_Witness ==
    /\ pc = "saved"
    /\ shandler = "pickle"
    /\ Len(sdata) = 26
    /\ smax = 10
    /\ Len(sfiles) = 3
    /\ sfiles[3].lines[1].fields = sdata[1]

====
